---- MODULE Spec2Model ----
(***************************************************************************)
(* A model of tinyvdom (src/src/main.ts): the reactivity engine            *)
(* (reactive / track / trigger / effect) as a state machine with an        *)
(* explicit call stack, and the renderer and reconciler (render / patch /  *)
(* updateProps) as operators over a host tree.                             *)
(***************************************************************************)
EXTENDS Integers, Sequences, FiniteSets

\* ------------------------------------------------------------------------
\* Bounds of the model
\* ------------------------------------------------------------------------

\* Property values written to reactive objects are 0..MaxVal.
MaxVal == 1

\* At most MaxEffects effect closures are ever created.
MaxEffects == 2

\* The host's call stack holds at most MaxDepth frames of the engine; a call
\* past it fails as the host's stack overflow does (a thrown RangeError).
MaxDepth == 5

\* ------------------------------------------------------------------------
\* Reactivity: values
\* ------------------------------------------------------------------------

\* activeEffect's "no effect" (null); effect closures are numbered from 1.
Null == 0

\* A field that does not apply.
None == "-"

\* The plain objects wrapped by reactive(), and their property keys.
\* o1 is reactive({a: 0, b: 0}), o2 is reactive({a: 0}).
Objs == {"o1", "o2"}

\* A plain object, todos = {done: 0}, that an application nests in a wrapped
\* object (o1 is then reactive({a: 0, b: todos})); it is not wrapped itself.
Todos == "todos"

\* What a property reads as while it holds the reference to todos.
Ref == -1

KeysOf(o) == IF o = "o1" THEN {"a", "b"} ELSE {"a"}

Vals == 0 .. MaxVal

\* One statement of an effect callback.
OpGet(o, k) == [op |-> "get", o |-> o, k |-> k, v |-> 0, f |-> 0]

OpSet(o, k, v) == [op |-> "set", o |-> o, k |-> k, v |-> v, f |-> 0]

OpEffect(f) == [op |-> "effect", o |-> None, k |-> None, v |-> 0, f |-> f]

OpThrow == [op |-> "throw", o |-> None, k |-> None, v |-> 0, f |-> 0]

\* if (o.k !== v) return;
OpIf(o, k, v) == [op |-> "if", o |-> o, k |-> k, v |-> v, f |-> 0]

\* The callbacks handed to effect(): straight-line programs over the
\* reactive wrappers.
\*   1  lastSeen = o1.a
\*   2  reads o2.a (another object, same key name)
\*   3  reads o1.b twice (same object, another key)
\*   4  registers a nested effect (callback 1), then reads o1.b
\*   5  reads o1.b, then fails
\*   6  writes o2.a (re-running its subscribers), then reads o1.b
\*   7  reads o1.a and writes it back (a dependency cycle)
\*   8  reads o2.a only while o1.a is 0 (a dependency that comes and goes)
FnTable ==
  << << OpGet("o1", "a") >>,
     << OpGet("o2", "a") >>,
     << OpGet("o1", "b"), OpGet("o1", "b") >>,
     << OpEffect(1), OpGet("o1", "b") >>,
     << OpGet("o1", "b"), OpThrow >>,
     << OpSet("o2", "a", 1), OpGet("o1", "b") >>,
     << OpGet("o1", "a"), OpSet("o1", "a", 0) >>,
     << OpIf("o1", "a", 0), OpGet("o2", "a") >> >>

Fns == DOMAIN FnTable

VARIABLES
  store,              \* the wrapped objects: store[o][k] is the stored value
  activeEffect,       \* the effect closure now running, or Null
  typeDependencyMap,  \* target -> key -> the Set of effect closures, in insertion order
  effects,            \* the effect closures created so far: effects[e] is the callback of closure e
  stack,              \* the call stack: effectFn and trigger frames, innermost last
  hasRead             \* history: <<e, o, k>> when closure e's callback has read o.k

rvars == << store, activeEffect, typeDependencyMap, effects, stack, hasRead >>

VARIABLES
  container,          \* the host element patch works under (#root), with its live subtree
  oldVNode,           \* the virtual tree the live child was last rendered or patched from
  newVNode,           \* the virtual tree handed to the last patch
  hostLog,            \* history: the host mutations of the last patch, in order
  hostError,          \* the last patch or updateProps ended by a thrown TypeError
  lastMount,          \* history: the identifier given to the last mount, and what it threw
  phase,              \* "init", "mounted", "patched", "rendered", "updated"
  hArgs,              \* the arguments of a call of h: type, props, children
  hResult             \* what the call of h returned (UndefinedChild before the call)

hvars == << hArgs, hResult >>

pvars == << container, oldVNode, newVNode, hostLog, hostError, lastMount, phase, hvars >>

vars == << rvars, pvars >>

\* ------------------------------------------------------------------------
\* Reactivity: frames
\* ------------------------------------------------------------------------

\* A running effectFn closure e, about to execute statement pc of its callback.
\* first: the call is the one made by effect() itself (registration).
EffectFrame(e, first) ==
  [kind |-> "effectFn", eff |-> e, pc |-> 1, first |-> first,
   o |-> None, k |-> None, idx |-> 0, changed |-> FALSE,
   invoked |-> << >>, readers |-> {}]

\* A running trigger(o, k), about to visit entry idx of the subscriber Set.
\* History fields: changed (the write that called it changed the value),
\* invoked (the closures it has called), readers (the closures that had read
\* o.k when it was called).
TriggerFrame(o, k, changed, readers) ==
  [kind |-> "trigger", eff |-> 0, pc |-> 0, first |-> FALSE,
   o |-> o, k |-> k, idx |-> 1, changed |-> changed,
   invoked |-> << >>, readers |-> readers]

Range(s) == {s[i] : i \in DOMAIN s}

\* A Map (or WeakMap) with no entry.
EmptyMap == [x \in {} |-> 0]

\* The subscriber Set of (o, k) as a sequence in insertion order; empty when
\* the target or the key has no entry.
Subscribers(o, k) ==
  IF o \in DOMAIN typeDependencyMap /\ k \in DOMAIN typeDependencyMap[o]
    THEN typeDependencyMap[o][k]
    ELSE << >>

\* An add that does not look for the value first.
SetAddAlways(s, e) == Append(s, e)

\* Set.prototype.add: appends unless the value is already a member.

SetAdd(s, e) == IF e \in Range(s) THEN s ELSE Append(s, e)

\* A track that starts the key's Set afresh, dropping its earlier members.
TrackFresh(m, ae, o, k) ==
  IF ae = Null
    THEN m
    ELSE LET depMap == IF o \in DOMAIN m THEN m[o] ELSE EmptyMap
             newDepMap == [x \in DOMAIN depMap \cup {k} |->
                            IF x = k THEN << ae >> ELSE depMap[x]]
         IN  [x \in DOMAIN m \cup {o} |-> IF x = o THEN newDepMap ELSE m[x]]

\* track(target, key) with the active effect ae on dependency map m.
Track(m, ae, o, k) ==
  IF ae = Null
    THEN m
    ELSE LET depMap == IF o \in DOMAIN m THEN m[o] ELSE EmptyMap
             depSet == IF k \in DOMAIN depMap THEN depMap[k] ELSE << >>
             newDepMap == [x \in DOMAIN depMap \cup {k} |->
                            IF x = k THEN SetAdd(depSet, ae) ELSE depMap[x]]
         IN  [x \in DOMAIN m \cup {o} |-> IF x = o THEN newDepMap ELSE m[x]]

\* The closures that have read o.k while their callback was running.
Readers(o, k) == {t[1] : t \in {u \in hasRead : u[2] = o /\ u[3] = k}}

Top == stack[Len(stack)]

Pop == SubSeq(stack, 1, Len(stack) - 1)

ReplaceTop(fr) == [stack EXCEPT ![Len(stack)] = fr]

\* ------------------------------------------------------------------------
\* Reactivity: Init
\* ------------------------------------------------------------------------

RInit ==
  /\ store = [o \in Objs |-> [k \in KeysOf(o) |-> 0]]
  /\ activeEffect = Null
  /\ typeDependencyMap = EmptyMap
  /\ effects = << >>
  /\ stack = << >>
  /\ hasRead = {}

\* ------------------------------------------------------------------------
\* Reactivity: the Proxy handlers, as one step of whoever calls them
\* (st is the stack the caller leaves behind)
\* ------------------------------------------------------------------------

\* get(target, key): track, then Reflect.get. by is the closure whose callback
\* makes the read (Null outside any callback).
ProxyGet(by, o, k, st) ==
  /\ typeDependencyMap' = Track(typeDependencyMap, activeEffect, o, k)
  /\ hasRead' = IF by = Null THEN hasRead ELSE hasRead \cup {<< by, o, k >>}
  /\ stack' = st
  /\ UNCHANGED << store, activeEffect, effects >>

\* A call that is skipped when the closure is already running further down
\* the stack.
CallUnlessRunning(st, fr) ==
  IF fr.kind = "effectFn"
       /\ \E i \in DOMAIN st : st[i].kind = "effectFn" /\ st[i].eff = fr.eff
    THEN st
    ELSE IF Len(st) < MaxDepth THEN Append(st, fr) ELSE << >>

\* The call of a function from stack st: the frame is pushed, or the host's
\* stack is exhausted and the RangeError unwinds every frame.
Call(st, fr) == IF Len(st) < MaxDepth THEN Append(st, fr) ELSE << >>

\* set(target, key, value): Reflect.set, then trigger(target, key) if it
\* succeeded (on a plain object it does).
ProxySet(o, k, v, st) ==
  LET result == TRUE
  IN  /\ store' = [store EXCEPT ![o][k] = v]
      /\ stack' = IF result
                    THEN Call(st, TriggerFrame(o, k, store[o][k] # v, Readers(o, k)))
                    ELSE st
      /\ UNCHANGED << activeEffect, typeDependencyMap, effects, hasRead >>

\* A write to an object that goes through the set handler, as it would had
\* get handed out a wrapper of the nested object.
PlainSetTrapped(obj, k, v, st) == ProxySet(obj, k, v, st)

\* obj.k = v on an object that is no Proxy: the plain assignment.
PlainSet(obj, k, v, st) ==
  /\ store' = [store EXCEPT ![obj][k] = v]
  /\ stack' = st

\* effectFn(): the closure's first statement, activeEffect = effectFn, runs
\* once the call has its frame.
Invoke(e, first, st) ==
  /\ stack' = Call(st, EffectFrame(e, first))
  /\ activeEffect' = IF Len(st) < MaxDepth THEN e ELSE activeEffect

\* ------------------------------------------------------------------------
\* Reactivity: what application code does (nothing of the engine is running)
\* ------------------------------------------------------------------------

\* effect(fn): a new closure effectFn is created and called.
Effect(f) ==
  /\ stack = << >>
  /\ Len(effects) < MaxEffects
  /\ effects' = Append(effects, f)
  /\ Invoke(Len(effects) + 1, TRUE, << >>)
  /\ UNCHANGED << store, typeDependencyMap, hasRead >>
  /\ UNCHANGED pvars

\* state.k = v from application code.
Write(o, k, v) ==
  /\ stack = << >>
  /\ ProxySet(o, k, v, << >>)
  /\ UNCHANGED pvars

\* state.k read from application code.
Read(o, k) ==
  /\ stack = << >>
  /\ ProxyGet(Null, o, k, << >>)
  /\ UNCHANGED pvars

\* state.b.done = v from application code, while state.b holds todos: the
\* read of state.b goes through the get handler, which tracks and returns the
\* object as it is stored, and the assignment is made on that object.
NestedWrite(v) ==
  /\ stack = << >>
  /\ store["o1"]["b"] = Ref
  /\ typeDependencyMap' = Track(typeDependencyMap, activeEffect, "o1", "b")
  /\ PlainSet(Todos, "done", v, << >>)
  /\ UNCHANGED << activeEffect, effects, hasRead >>
  /\ UNCHANGED pvars

\* ------------------------------------------------------------------------
\* Reactivity: one statement of the innermost running function
\* ------------------------------------------------------------------------

Body(e) == FnTable[effects[e]]

Running(kind) == stack # << >> /\ Top.kind = kind

AtOp(op) ==
  /\ Running("effectFn")
  /\ Top.pc <= Len(Body(Top.eff))
  /\ Body(Top.eff)[Top.pc].op = op

Stmt == Body(Top.eff)[Top.pc]

Advanced == ReplaceTop([Top EXCEPT !.pc = @ + 1])

\* fn reads a reactive property.
FnGet ==
  /\ AtOp("get")
  /\ ProxyGet(Top.eff, Stmt.o, Stmt.k, Advanced)
  /\ UNCHANGED pvars

\* fn writes a reactive property.
FnSet ==
  /\ AtOp("set")
  /\ ProxySet(Stmt.o, Stmt.k, Stmt.v, Advanced)
  /\ UNCHANGED pvars

\* fn reads a reactive property and returns unless it holds the value the
\* rest of fn is for.
FnIf ==
  /\ AtOp("if")
  /\ ProxyGet(Top.eff, Stmt.o, Stmt.k,
              IF store[Stmt.o][Stmt.k] = Stmt.v
                THEN Advanced
                ELSE ReplaceTop([Top EXCEPT !.pc = Len(Body(Top.eff)) + 1]))
  /\ UNCHANGED pvars

\* fn calls effect(): a nested registration.
FnEffect ==
  /\ AtOp("effect")
  /\ Len(effects) < MaxEffects
  /\ effects' = Append(effects, Stmt.f)
  /\ Invoke(Len(effects) + 1, TRUE, Advanced)
  /\ UNCHANGED << store, typeDependencyMap, hasRead >>
  /\ UNCHANGED pvars

\* fn throws: nothing in the engine catches, every frame is unwound and no
\* statement after a call runs.
FnThrow ==
  /\ AtOp("throw")
  /\ stack' = << >>
  /\ UNCHANGED << store, activeEffect, typeDependencyMap, effects, hasRead >>
  /\ UNCHANGED pvars

\* fn has returned: effectFn's last statement, activeEffect = null.
EffectReturn ==
  /\ Running("effectFn")
  /\ Top.pc > Len(Body(Top.eff))
  /\ activeEffect' = Null
  /\ stack' = Pop
  /\ UNCHANGED << store, typeDependencyMap, effects, hasRead >>
  /\ UNCHANGED pvars

\* trigger's forEach calls the next closure of the Set (a Set's forEach also
\* visits the values added while it runs).
TriggerNext ==
  /\ Running("trigger")
  /\ Top.idx <= Len(Subscribers(Top.o, Top.k))
  /\ LET e == Subscribers(Top.o, Top.k)[Top.idx]
     IN  Invoke(e, FALSE,
                ReplaceTop([Top EXCEPT !.idx = @ + 1, !.invoked = Append(@, e)]))
  /\ UNCHANGED << store, typeDependencyMap, effects, hasRead >>
  /\ UNCHANGED pvars

\* trigger returns: no entry for the target or the key, or the Set is exhausted.
TriggerReturn ==
  /\ Running("trigger")
  /\ Top.idx > Len(Subscribers(Top.o, Top.k))
  /\ stack' = Pop
  /\ UNCHANGED << store, activeEffect, typeDependencyMap, effects, hasRead >>
  /\ UNCHANGED pvars

RNext ==
  \/ \E f \in Fns : Effect(f)
  \/ \E o \in Objs : \E k \in KeysOf(o), v \in Vals : Write(o, k, v)
  \/ \E o \in Objs : \E k \in KeysOf(o) : Read(o, k)
  \/ FnGet
  \/ FnSet
  \/ FnIf
  \/ FnEffect
  \/ FnThrow
  \/ EffectReturn
  \/ TriggerNext
  \/ TriggerReturn

\* The callbacks of an application that keeps todos in o1.b: one that reads
\* another property, one that reads o1.b, one that reads o1.b and fails.
ShallowFns == {1, 3, 5}

\* The state after o1 = reactive({a: 0, b: todos}) and o2 = reactive({a: 0}).
ShallowRInit ==
  /\ store = [o \in Objs \cup {Todos} |->
               IF o = Todos
                 THEN [k \in {"done"} |-> 0]
                 ELSE [k \in KeysOf(o) |-> IF o = "o1" /\ k = "b" THEN Ref ELSE 0]]
  /\ activeEffect = Null
  /\ typeDependencyMap = EmptyMap
  /\ effects = << >>
  /\ stack = << >>
  /\ hasRead = {}

SNext ==
  \/ \E f \in ShallowFns : Effect(f)
  \/ \E o \in Objs : \E k \in KeysOf(o), v \in Vals : Write(o, k, v)
  \/ \E o \in Objs : \E k \in KeysOf(o) : Read(o, k)
  \/ \E v \in Vals : NestedWrite(v)
  \/ FnGet
  \/ FnThrow
  \/ EffectReturn
  \/ TriggerNext
  \/ TriggerReturn

\* ------------------------------------------------------------------------
\* Virtual nodes and attribute values
\* ------------------------------------------------------------------------

\* A child list holds at most MaxKids children.
MaxKids == 3

\* An attribute value: a string, a number (v is its decimal form) or a
\* function (v is its identity); Undefined is what a missing key reads as.
Str(x) == [t |-> "string", v |-> x]

Num(x) == [t |-> "number", v |-> x]

Fn(x) == [t |-> "function", v |-> x]

Undefined == [t |-> "undefined", v |-> ""]

\* The source text of a function, which is what String(fn) gives.
FnSource(f) == IF f = "f1" THEN "() => 1" ELSE "() => 2"

\* String(value): what setAttribute stores.
StringOf(x) ==
  CASE x.t = "undefined" -> "undefined"
    [] x.t = "function" -> FnSource(x.v)
    [] OTHER -> x.v

\* Number(s) of a string, by its decimal form ("NaN" when it is no numeral).
StringToNumber(str) ==
  CASE str = "" -> "0"
    [] str \in {"0", "1", "2", "3"} -> str
    [] OTHER -> "NaN"

\* x == y of JavaScript on these values.
LooseEq(x, y) ==
  CASE x.t = y.t -> x.v = y.v
    [] x.t = "undefined" \/ y.t = "undefined" -> FALSE
    [] x.t = "string" /\ y.t = "number" ->
         StringToNumber(x.v) = y.v
    [] x.t = "number" /\ y.t = "string" ->
         x.v = StringToNumber(y.v)
    [] x.t = "function" /\ y.t = "string" -> FnSource(x.v) = y.v
    [] x.t = "string" /\ y.t = "function" -> x.v = FnSource(y.v)
    [] OTHER -> FALSE

\* if (x): the truthiness of a value.
Truthy(x) ==
  CASE x.t = "undefined" -> FALSE
    [] x.t = "string" -> x.v # ""
    [] x.t = "number" -> x.v # "0"
    [] OTHER -> TRUE

\* The attribute keys of the model, in the order a props object lists them.
KeyOrder == << "id", "class", "value", "onClick" >>

\* key.startsWith('on')
StartsWithOn(key) == key \in {"onClick"}

\* key.slice(2).toLowerCase()
EventName(key) == IF key = "onClick" THEN "click" ELSE key

\* props[key], undefined for a key the object does not hold.
PropAt(props, key) == IF key \in DOMAIN props THEN props[key] ELSE Undefined

\* A virtual node {type, props, children}; a child is a virtual node or a
\* string (type "#text"), and an index past the end of a list reads as
\* undefined (type "#undefined").
VNode(type, props, children) ==
  [type |-> type, props |-> props, children |-> children, text |-> ""]

TextChild(str) ==
  [type |-> "#text", props |-> EmptyMap, children |-> << >>, text |-> str]

UndefinedChild ==
  [type |-> "#undefined", props |-> EmptyMap, children |-> << >>, text |-> ""]

\* typeof child === 'string'
IsString(c) == c.type = "#text"

\* !node
IsAbsent(c) == c.type = "#undefined"

\* children[i], i counted from 0
ChildAt(children, i) ==
  IF i + 1 <= Len(children) THEN children[i + 1] ELSE UndefinedChild

\* ------------------------------------------------------------------------
\* h
\* ------------------------------------------------------------------------

\* The children arguments of a call hold at most MaxNodes entries in all,
\* arrays and their entries counted, nested at most MaxNest arrays deep.
MaxNodes == 4

MaxNest == 2

\* One entry of the children argument: a child (a virtual node or a string),
\* null, undefined, or an array of entries.
ChildItem(child) == [kind |-> "child", child |-> child, items |-> << >>]

NullItem == [kind |-> "null", child |-> UndefinedChild, items |-> << >>]

UndefinedItem == [kind |-> "undefined", child |-> UndefinedChild, items |-> << >>]

ArrayItem(items) == [kind |-> "array", child |-> UndefinedChild, items |-> items]

RECURSIVE Flat(_)

\* children.flat(Infinity): every array, at whatever depth, gives way to its
\* entries, in place.
Flat(items) ==
  IF items = << >>
    THEN << >>
    ELSE (IF Head(items).kind = "array"
            THEN Flat(Head(items).items)
            ELSE << Head(items) >>) \o Flat(Tail(items))

\* child !== null: a test that lets undefined through.
NotNull(item) == item.kind # "null"

\* child != null: false of null and of undefined, true of everything else.
NotNullish(item) == item.kind \notin {"null", "undefined"}

\* h(type, props, ...children)
H(type, props, children) ==
  LET flatChildren == SelectSeq(Flat(children), NotNullish)
  IN  VNode(type, props, [i \in 1 .. Len(flatChildren) |-> flatChildren[i].child])

\* The entries the application passes that are no arrays.
HLeaves ==
  { ChildItem(VNode("p", EmptyMap, << >>)), ChildItem(TextChild("a")),
    NullItem, UndefinedItem }

RECURSIVE ItemsOfSize(_, _)

RECURSIVE ListsOfSize(_, _)

\* The entries of n nodes in all, nested at most d arrays deep.
ItemsOfSize(n, d) ==
  IF n = 1
    THEN HLeaves \cup (IF d > 0 THEN { ArrayItem(<< >>) } ELSE {})
    ELSE IF d = 0
      THEN {}
      ELSE { ArrayItem(items) : items \in ListsOfSize(n - 1, d - 1) }

\* The lists of entries of n nodes in all, nested at most d arrays deep.
ListsOfSize(n, d) ==
  IF n = 0
    THEN { << >> }
    ELSE UNION { { << x >> \o rest : x \in ItemsOfSize(k, d),
                                     rest \in ListsOfSize(n - k, d) } :
                 k \in 1 .. n }

\* The children arguments of the calls of h.
HChildren == UNION { ListsOfSize(n, MaxNest) : n \in 0 .. MaxNodes }

\* The type and props arguments of the calls of h.
HHeads ==
  { [type |-> "p", props |-> EmptyMap],
    [type |-> "li", props |-> [x \in {"id"} |-> Str("1")]] }

\* ------------------------------------------------------------------------
\* The host tree
\* ------------------------------------------------------------------------

\* A host node: an element (tag, attributes, listeners, child nodes) or a
\* text node (data); UndefinedNode is what childNodes[i] gives past the end.
Element(tag, attrs, listeners, childNodes) ==
  [nodeType |-> "element", tag |-> tag, data |-> "", attrs |-> attrs,
   listeners |-> listeners, childNodes |-> childNodes]

TextNode(data) ==
  [nodeType |-> "text", tag |-> "#text", data |-> data, attrs |-> EmptyMap,
   listeners |-> {}, childNodes |-> << >>]

UndefinedNode ==
  [nodeType |-> "undefined", tag |-> "", data |-> "", attrs |-> EmptyMap,
   listeners |-> {}, childNodes |-> << >>]

\* parent.childNodes[index], index counted from 0
ChildNode(parent, index) ==
  IF index + 1 <= Len(parent.childNodes)
    THEN parent.childNodes[index + 1]
    ELSE UndefinedNode

AppendChild(parent, node) ==
  [parent EXCEPT !.childNodes = Append(@, node)]

RemoveChild(parent, index) ==
  [parent EXCEPT !.childNodes =
     SubSeq(@, 1, index) \o SubSeq(@, index + 2, Len(@))]

ReplaceChild(parent, node, index) ==
  [parent EXCEPT !.childNodes[index + 1] = node]

SetAttribute(el, key, value) ==
  [el EXCEPT !.attrs = [x \in DOMAIN @ \cup {key} |->
                          IF x = key THEN StringOf(value) ELSE @[x]]]

RemoveAttribute(el, key) ==
  [el EXCEPT !.attrs = [x \in DOMAIN @ \ {key} |-> @[x]]]

\* The listener list of an element holds a (type, callback) pair once.
AddEventListener(el, type, fn) ==
  [el EXCEPT !.listeners = @ \cup {<< type, fn.v >>}]

RemoveEventListener(el, type, fn) ==
  [el EXCEPT !.listeners = @ \ {<< type, fn.v >>}]

\* One host mutation of the live tree: the method, the path (child indices
\* from the container) of the node it is called on, and the attribute key,
\* event type or child index it is given.
HostOp(op, path, key, index) ==
  [op |-> op, path |-> path, key |-> key, index |-> index]

\* ------------------------------------------------------------------------
\* render
\* ------------------------------------------------------------------------

RECURSIVE Render(_)

\* render(vnode): a fresh element with every prop applied and every child
\* rendered and appended in order.
Render(vnode) ==
  LET props == vnode.props
      isListener(key) == StartsWithOn(key) /\ props[key].t = "function"
  IN  Element(vnode.type,
              [key \in {x \in DOMAIN props : ~isListener(x)} |-> StringOf(props[key])],
              {<< EventName(key), props[key].v >> :
                 key \in {x \in DOMAIN props : isListener(x)}},
              [i \in 1 .. Len(vnode.children) |->
                 IF IsString(vnode.children[i])
                   THEN TextNode(vnode.children[i].text)
                   ELSE Render(vnode.children[i])])

\* ------------------------------------------------------------------------
\* updateProps and patch
\* ------------------------------------------------------------------------

\* What a call has done to the node it works on: the node after it, the host
\* mutations made, and whether it ended by a thrown TypeError.
Done(node, log) == [node |-> node, log |-> log, err |-> FALSE]

Thrown(node, log) == [node |-> node, log |-> log, err |-> TRUE]

\* Two calls one after the other; the second does not run if the first threw.
Then(first, second) ==
  [node |-> second.node, log |-> first.log \o second.log, err |-> second.err]

\* The body of updateProps' first loop for one key of newProps.
SetProp(el, key, newProps, oldProps, path) ==
  LET new == PropAt(newProps, key)
      old == PropAt(oldProps, key)
  IN  IF LooseEq(new, old)
        THEN Done(el, << >>)
        ELSE IF el.nodeType # "element"
          THEN Thrown(el, << >>)
          ELSE IF StartsWithOn(key) /\ new.t = "function"
            THEN IF Truthy(old)
                   THEN IF old.t # "function"
                          THEN Thrown(el, << >>)
                          ELSE Done(AddEventListener(
                                      RemoveEventListener(el, EventName(key), old),
                                      EventName(key), new),
                                    << HostOp("removeEventListener", path, EventName(key), -1),
                                       HostOp("addEventListener", path, EventName(key), -1) >>)
                   ELSE Done(AddEventListener(el, EventName(key), new),
                             << HostOp("addEventListener", path, EventName(key), -1) >>)
            ELSE Done(SetAttribute(el, key, new),
                      << HostOp("setAttribute", path, key, -1) >>)

\* The body of updateProps' second loop for one key of oldProps.
RemoveProp(el, key, newProps, oldProps, path) ==
  IF key \in DOMAIN newProps
    THEN Done(el, << >>)
    ELSE IF el.nodeType # "element"
      THEN Thrown(el, << >>)
      ELSE IF StartsWithOn(key) /\ oldProps[key].t = "function"
        THEN Done(RemoveEventListener(el, EventName(key), oldProps[key]),
                  << HostOp("removeEventListener", path, EventName(key), -1) >>)
        ELSE Done(RemoveAttribute(el, key),
                  << HostOp("removeAttribute", path, key, -1) >>)

RECURSIVE SetLoop(_, _, _, _, _)

\* for (const key in newProps), from the i-th key on.
SetLoop(el, i, newProps, oldProps, path) ==
  IF i > Len(KeyOrder)
    THEN Done(el, << >>)
    ELSE IF KeyOrder[i] \notin DOMAIN newProps
      THEN SetLoop(el, i + 1, newProps, oldProps, path)
      ELSE LET one == SetProp(el, KeyOrder[i], newProps, oldProps, path)
           IN  IF one.err
                 THEN one
                 ELSE Then(one, SetLoop(one.node, i + 1, newProps, oldProps, path))

RECURSIVE RemoveLoop(_, _, _, _, _)

\* for (const key in oldProps), from the i-th key on.
RemoveLoop(el, i, newProps, oldProps, path) ==
  IF i > Len(KeyOrder)
    THEN Done(el, << >>)
    ELSE IF KeyOrder[i] \notin DOMAIN oldProps
      THEN RemoveLoop(el, i + 1, newProps, oldProps, path)
      ELSE LET one == RemoveProp(el, KeyOrder[i], newProps, oldProps, path)
           IN  IF one.err
                 THEN one
                 ELSE Then(one, RemoveLoop(one.node, i + 1, newProps, oldProps, path))

\* updateProps(el, newProps, oldProps); path is where el is in the live tree.
UpdateProps(el, newProps, oldProps, path) ==
  LET set == SetLoop(el, 1, newProps, oldProps, path)
  IN  IF set.err
        THEN set
        ELSE Then(set, RemoveLoop(set.node, 1, newProps, oldProps, path))

\* What a VNode object reads as when != compares it with a string.
ObjectString == "[object Object]"

\* The comparison left out: every string position counts as changed.
ChildAlwaysNeq(nc, oc) == TRUE

\* newChildren[i] != oldChildren[i], one of the two being a string.
ChildLooseNeq(nc, oc) ==
  CASE IsString(nc) /\ IsString(oc) -> nc.text # oc.text
    [] IsAbsent(nc) \/ IsAbsent(oc) -> TRUE
    [] IsString(nc) -> nc.text # ObjectString
    [] OTHER -> oc.text # ObjectString

Max(a, b) == IF a >= b THEN a ELSE b

\* The loop bound with the new list's length left out.
LoopMaxOldOnly(newChildren, oldChildren) == Len(oldChildren)

\* max = Math.max(newChildren.length, oldChildren.length)
LoopMax(newChildren, oldChildren) == Max(Len(newChildren), Len(oldChildren))

\* A comparison that finds no two tags different.
TypeNeqNever(newNode, oldNode) == FALSE

\* newNode.type != oldNode.type
TypeNeq(newNode, oldNode) == newNode.type # oldNode.type

RECURSIVE Patch(_, _, _, _, _)

RECURSIVE PatchChildren(_, _, _, _, _)

\* A string branch that goes through the append / remove policy when one side
\* is missing.
ReplaceTextOrPolicy(currentEl, path, nc, i) ==
  IF currentEl.nodeType # "element"
    THEN Thrown(currentEl, << >>)
    ELSE IF IsAbsent(nc)
      THEN Done(RemoveChild(currentEl, i), << HostOp("removeChild", path, "", i) >>)
      ELSE LET node == IF IsString(nc) THEN TextNode(nc.text) ELSE Render(nc)
           IN  IF ChildNode(currentEl, i).nodeType = "undefined"
                 THEN Done(AppendChild(currentEl, node),
                           << HostOp("appendChild", path, "", -1) >>)
                 ELSE Done(ReplaceChild(currentEl, node, i),
                           << HostOp("replaceChild", path, "", i) >>)

\* The replaceChild of the loop's string branch at child i of currentEl.
ReplaceText(currentEl, path, nc, i) ==
  IF currentEl.nodeType # "element" \/ IsAbsent(nc)
       \/ ChildNode(currentEl, i).nodeType = "undefined"
    THEN Thrown(currentEl, << >>)
    ELSE Done(ReplaceChild(currentEl,
                           IF IsString(nc) THEN TextNode(nc.text) ELSE Render(nc),
                           i),
              << HostOp("replaceChild", path, "", i) >>)

\* The for loop of patch over the children of currentEl, from index i on.
PatchChildren(currentEl, path, newChildren, oldChildren, i) ==
  IF i >= LoopMax(newChildren, oldChildren)
    THEN Done(currentEl, << >>)
    ELSE LET nc == ChildAt(newChildren, i)
             oc == ChildAt(oldChildren, i)
             one == IF IsString(nc) \/ IsString(oc)
                      THEN IF ChildLooseNeq(nc, oc)
                             THEN ReplaceText(currentEl, path, nc, i)
                             ELSE Done(currentEl, << >>)
                      ELSE Patch(currentEl, path, nc, oc, i)
         IN  IF one.err
               THEN one
               ELSE Then(one, PatchChildren(one.node, path, newChildren, oldChildren, i + 1))

\* patch(parent, newNode, oldNode, index); path is where parent is in the
\* live tree. The result's node is parent after the call.
Patch(parent, path, newNode, oldNode, index) ==
  LET currentEl == ChildNode(parent, index)
      here == path \o << index >>
  IN  IF parent.nodeType = "undefined"
        THEN Thrown(parent, << >>)
        ELSE IF IsAbsent(oldNode)
          THEN IF IsAbsent(newNode) \/ parent.nodeType # "element"
                 THEN Thrown(parent, << >>)
                 ELSE Done(AppendChild(parent, Render(newNode)),
                           << HostOp("appendChild", path, "", -1) >>)
          ELSE IF IsAbsent(newNode)
            THEN IF currentEl.nodeType = "undefined"
                   THEN Thrown(parent, << >>)
                   ELSE Done(RemoveChild(parent, index),
                             << HostOp("removeChild", path, "", index) >>)
            ELSE IF TypeNeq(newNode, oldNode)
              THEN IF currentEl.nodeType = "undefined"
                     THEN Thrown(parent, << >>)
                     ELSE Done(ReplaceChild(parent, Render(newNode), index),
                               << HostOp("replaceChild", path, "", index) >>)
              ELSE LET props == UpdateProps(currentEl, newNode.props, oldNode.props, here)
                       kids == IF props.err
                                 THEN props
                                 ELSE Then(props,
                                           PatchChildren(props.node, here,
                                                         newNode.children, oldNode.children, 0))
                   IN  [node |-> IF currentEl.nodeType = "undefined"
                                   THEN parent
                                   ELSE ReplaceChild(parent, kids.node, index),
                        log |-> kids.log,
                        err |-> kids.err]

\* ------------------------------------------------------------------------
\* The virtual trees the application builds
\* ------------------------------------------------------------------------

Props1(k1, v1) == [x \in {k1} |-> v1]

Props2(k1, v1, k2, v2) == [x \in {k1, k2} |-> IF x = k1 THEN v1 ELSE v2]

\* The children a list is made of: three elements (two of one tag, with
\* different props and text) and a string.
ChildPool ==
  { VNode("p", EmptyMap, << >>),
    VNode("li", Props1("id", Str("1")), << TextChild("a") >>),
    VNode("li", Props1("onClick", Fn("f1")), << TextChild("b") >>),
    TextChild("a") }

ChildLists == UNION {[1 .. n -> ChildPool] : n \in 0 .. MaxKids}

RootProps == { Props2("id", Str("list"), "onClick", Fn("f2")) }

VNodes ==
  {VNode(type, props, children) :
     type \in {"ul", "ol"}, props \in RootProps, children \in ChildLists}

\* ------------------------------------------------------------------------
\* Rendering: Init and the application's calls
\* ------------------------------------------------------------------------

\* No error.
NoError == [name |-> "", message |-> "", id |-> ""]

\* new Error(`cannot find ID: ${container}`)
NotFound(id) == [name |-> "Error", message |-> "cannot find ID: ", id |-> id]

\* The identifiers the application mounts on: the one the document holds an
\* element for, and one it holds none for.
ContainerIds == {"root", "app"}

\* A lookup that finds the container whatever the identifier.
GetElementByIdAny(id) == container

\* document.getElementById(id): the element, or null (UndefinedNode).
GetElementById(id) ==
  IF "id" \in DOMAIN container.attrs /\ container.attrs["id"] = id
    THEN container
    ELSE UndefinedNode

PInit ==
  /\ container = Element("div", Props1("id", "root"), {}, << >>)
  /\ lastMount = [id |-> "", thrown |-> NoError]
  /\ hArgs = [type |-> "", props |-> EmptyMap, children |-> << >>]
  /\ hResult = UndefinedChild
  /\ oldVNode = UndefinedChild
  /\ newVNode = UndefinedChild
  /\ hostLog = << >>
  /\ hostError = FALSE
  /\ phase = "init"

\* mount(vnode, containerId): throws when the document holds no element of
\* that identifier, before anything is rendered.
Mount(vnode, containerId) ==
  /\ phase = "init"
  /\ LET root == GetElementById(containerId)
     IN  IF root.nodeType = "undefined"
           THEN /\ lastMount' = [id |-> containerId, thrown |-> NotFound(containerId)]
                /\ UNCHANGED << container, oldVNode, phase >>
           ELSE /\ lastMount' = [id |-> containerId, thrown |-> NoError]
                /\ container' = AppendChild(root, Render(vnode))
                /\ oldVNode' = vnode
                /\ phase' = "mounted"
  /\ UNCHANGED << newVNode, hostLog, hostError, hvars >>
  /\ UNCHANGED rvars

\* patch(root, vnode, oldVNode): the application's re-render.
PatchRoot(vnode) ==
  /\ phase = "mounted"
  /\ LET r == Patch(container, << >>, vnode, oldVNode, 0)
     IN  /\ container' = r.node
         /\ hostLog' = r.log
         /\ hostError' = r.err
  /\ newVNode' = vnode
  /\ phase' = "patched"
  /\ UNCHANGED << oldVNode, lastMount, hvars >>
  /\ UNCHANGED rvars

PNext ==
  \/ \E vnode \in VNodes, containerId \in ContainerIds : Mount(vnode, containerId)
  \/ \E vnode \in VNodes : PatchRoot(vnode)

\* ------------------------------------------------------------------------
\* Attributes: render, then updateProps on the same live element
\* ------------------------------------------------------------------------

\* The values an attribute key is given: a number, and two strings of which
\* one is the number's decimal form.
AttrVals == { Num("0"), Str(""), Str("0") }

\* The values an event-prefixed key is given: two handlers and a value that
\* is not callable.
HandlerVals == { Fn("f1"), Fn("f2"), Str("x") }

\* The values of one key, for the attribute mappings the application builds.
ValsOf(key) ==
  CASE key = "onClick" -> HandlerVals
    [] key = "id" -> AttrVals
    [] OTHER -> { Str("0") }

\* A key of a mapping under construction: one of its values, or left out.
Choices(key) == ValsOf(key) \cup { Undefined }

\* The mapping {id, class, value, onClick} without the keys left out.
Props4(id, class, value, onClick) ==
  LET all == [key \in Range(KeyOrder) |->
                CASE key = "id" -> id
                  [] key = "class" -> class
                  [] key = "value" -> value
                  [] OTHER -> onClick]
  IN  [key \in {x \in Range(KeyOrder) : all[x] # Undefined} |-> all[key]]

PropsMaps ==
  { Props4(id, class, value, onClick) :
      id \in Choices("id"), class \in Choices("class"),
      value \in Choices("value"), onClick \in Choices("onClick") }

\* render(h('div', props)), appended to the container.
RenderLive(props) ==
  /\ phase = "init"
  /\ newVNode' = VNode("div", props, << >>)
  /\ container' = AppendChild(container, Render(VNode("div", props, << >>)))
  /\ phase' = "rendered"
  /\ UNCHANGED << oldVNode, hostLog, hostError, lastMount, hvars >>
  /\ UNCHANGED rvars

\* updateProps(el, props, previous) on the live element, previous being the
\* mapping of the last render or updateProps call. A thrown TypeError ends the
\* application's updates.
UpdateLive(props) ==
  /\ phase \in {"rendered", "updated"}
  /\ ~hostError
  /\ LET r == UpdateProps(ChildNode(container, 0), props, newVNode.props, << 0 >>)
     IN  /\ container' = ReplaceChild(container, r.node, 0)
         /\ hostLog' = r.log
         /\ hostError' = r.err
  /\ oldVNode' = newVNode
  /\ newVNode' = VNode("div", props, << >>)
  /\ phase' = "updated"
  /\ UNCHANGED << lastMount, hvars >>
  /\ UNCHANGED rvars

UNext ==
  \/ \E props \in PropsMaps : RenderLive(props)
  \/ \E props \in PropsMaps : UpdateLive(props)

\* ------------------------------------------------------------------------
\* Building a virtual node: the application's calls of h
\* ------------------------------------------------------------------------

\* The application is about to call h with arguments of its choice.
HInit ==
  /\ RInit
  /\ container = Element("div", Props1("id", "root"), {}, << >>)
  /\ oldVNode = UndefinedChild
  /\ newVNode = UndefinedChild
  /\ hostLog = << >>
  /\ hostError = FALSE
  /\ lastMount = [id |-> "", thrown |-> NoError]
  /\ phase = "init"
  /\ \E head \in HHeads, children \in HChildren :
       hArgs = [type |-> head.type, props |-> head.props, children |-> children]
  /\ hResult = UndefinedChild

\* h(type, props, ...children) is called and returns.
CallH ==
  /\ hResult = UndefinedChild
  /\ hResult' = H(hArgs.type, hArgs.props, hArgs.children)
  /\ UNCHANGED << container, oldVNode, newVNode, hostLog, hostError, lastMount,
                  phase, hArgs >>
  /\ UNCHANGED rvars

HNext == CallH

\* ------------------------------------------------------------------------
\* Specifications
\* ------------------------------------------------------------------------

\* The reactivity engine under application code that registers effects and
\* reads and writes reactive objects.
Init == RInit /\ PInit

Spec == Init /\ [][RNext]_vars

\* The renderer and reconciler: one tree mounted, then patched to another.
SpecPatch == Init /\ [][PNext]_vars

\* One live element rendered, then taken through a sequence of attribute
\* mappings by updateProps.
SpecProps == Init /\ [][UNext]_vars

\* The reactivity engine under an application that nests a plain object in a
\* wrapped one and writes to both.
ShallowInit == ShallowRInit /\ PInit

SpecShallow == ShallowInit /\ [][SNext]_vars

\* The tree-construction function on the children arguments of the model.
SpecH == HInit /\ [][HNext]_vars

\* ------------------------------------------------------------------------
\* Claims about the reactivity engine (checked under Spec)
\* ------------------------------------------------------------------------

Triggers == {i \in DOMAIN stack : stack[i].kind = "trigger"}

\* The trigger call on top of the stack has visited every subscriber and is
\* about to return.
Returning(i) ==
  /\ i = Len(stack)
  /\ stack[i].kind = "trigger"
  /\ stack[i].idx > Len(Subscribers(stack[i].o, stack[i].k))

NoDuplicates(seq) == \A i, j \in DOMAIN seq : seq[i] = seq[j] => i = j

\* C1: a write through the wrapper that assigns the value the property
\* already holds invokes no subscriber.
C1_DistinctValueSuppression ==
  \A i \in Triggers : ~stack[i].changed => stack[i].invoked = << >>

\* C2: when an effect invocation has ended, by return or by a thrown error,
\* and nothing of the engine is running, activeEffect is null.
C2_ActiveEffectCleared ==
  stack = << >> => activeEffect = Null

\* C3: every read of (object, key) made while effect E's callback is
\* executing leaves E in the subscriber set of (object, key).
C3_ReadsAttributed ==
  \A t \in hasRead : t[1] \in Range(Subscribers(t[2], t[3]))

\* C4: a write to (object, key) re-runs exactly the effects that have read
\* that (object, key): none that has not read it, and, once trigger has gone
\* through the set, each that had.
C4_DependencyIsolation ==
  \A i \in Triggers :
    /\ \A e \in Range(stack[i].invoked) : << e, stack[i].o, stack[i].k >> \in hasRead
    /\ Returning(i) => stack[i].readers \subseteq Range(stack[i].invoked)

\* C5: a value-changing write from application code to a property that an
\* effect's callback read has re-run that effect by the time the write
\* returns, and a callback only ever runs by its registration or by a
\* trigger on a key it read.
C5_EffectRerunsOnWrite ==
  /\ \A i \in DOMAIN stack :
       (stack[i].kind = "effectFn" /\ ~stack[i].first) =>
         /\ i > 1
         /\ stack[i - 1].kind = "trigger"
         /\ << stack[i].eff, stack[i - 1].o, stack[i - 1].k >> \in hasRead
  /\ (Len(stack) = 1 /\ Returning(1) /\ stack[1].changed) =>
       stack[1].readers \subseteq Range(stack[1].invoked)

\* C6: a subscriber set holds an effect at most once however often the effect
\* has read the key, and one trigger call invokes no effect twice and, when it
\* returns, has invoked every member of the set once.
C6_NoDuplicateSubscribers ==
  /\ \A o \in Objs : \A k \in KeysOf(o) : NoDuplicates(Subscribers(o, k))
  /\ \A i \in Triggers :
       /\ NoDuplicates(stack[i].invoked)
       /\ Returning(i) => stack[i].invoked = Subscribers(stack[i].o, stack[i].k)

\* C6's case: the callback that reads o1.b twice per run has been re-run by a
\* trigger on o1.b, which is about to return.
C6_Witness ==
  /\ stack # << >>
  /\ Returning(Len(stack))
  /\ Top.o = "o1" /\ Top.k = "b"
  /\ \E e \in Range(Top.invoked) : effects[e] = 3

\* Callback f reads a property and writes the same property later on.
WritesWhatItRead(f) ==
  \E i, j \in DOMAIN FnTable[f] :
    /\ i < j
    /\ FnTable[f][i].op = "get" /\ FnTable[f][j].op = "set"
    /\ FnTable[f][i].o = FnTable[f][j].o /\ FnTable[f][i].k = FnTable[f][j].k

\* C16: a run of an effect whose callback writes a property it has read
\* never reaches its return: the write's trigger calls the closure again,
\* however many of its runs are already on the stack, and the recursion ends
\* only by an error that unwinds the stack (the host's stack exhausted, or a
\* subscriber that throws).
C16_NoCycleDetection ==
  \A i \in DOMAIN stack :
    (stack[i].kind = "effectFn" /\ WritesWhatItRead(effects[stack[i].eff])) =>
      ~(i = Len(stack) /\ stack[i].pc > Len(Body(stack[i].eff)))

\* C16's case: the stack is full, and its effectFn frames are runs of one
\* closure, entered again and again through the trigger of its own write.
C16_Witness ==
  /\ Len(stack) = MaxDepth
  /\ \A i \in DOMAIN stack :
       /\ stack[i].kind = "effectFn" =>
            (stack[i].eff = stack[1].eff /\ WritesWhatItRead(effects[stack[i].eff]))
       /\ stack[i].kind = (IF i % 2 = 1 THEN "effectFn" ELSE "trigger")

\* No step takes a member out of a subscriber Set: every Set of the next
\* state starts with the members it holds now, in their order.
SetsOnlyGrow ==
  \A o \in Objs : \A k \in KeysOf(o) :
    /\ Len(Subscribers(o, k)) <= Len(Subscribers(o, k)')
    /\ SubSeq(Subscribers(o, k)', 1, Len(Subscribers(o, k))) = Subscribers(o, k)

\* A trigger that has gone through its Set has called every member, whatever
\* the member's latest run has read.
EveryMemberCalled ==
  \A i \in Triggers :
    Returning(i) => Range(Subscribers(stack[i].o, stack[i].k)) \subseteq Range(stack[i].invoked)

\* C18: no operation deletes an entry of a subscriber set, so the dependency
\* map only grows, and an effect that was subscribed to (object, key) by an
\* earlier run is still re-run by a later write to that key that goes through
\* its subscribers, also when its latest run has not read the key.
C18_SubscriptionsNeverRemoved ==
  [][SetsOnlyGrow]_vars /\ []EveryMemberCalled

\* C18's case: a write to o2.a has re-run the closure of callback 8 while o1.a
\* is not 0, so the run has read o1.a only and is about to return: the
\* subscription to o2.a is the one an earlier run left.
C18_Witness ==
  /\ Len(stack) = 2
  /\ stack[1].kind = "trigger" /\ stack[1].o = "o2" /\ stack[1].k = "a"
  /\ stack[2].kind = "effectFn" /\ effects[stack[2].eff] = 8
  /\ stack[2].pc > Len(Body(stack[2].eff))
  /\ store["o1"]["a"] # 0
  /\ stack[2].eff \in Range(Subscribers("o2", "a"))

\* ------------------------------------------------------------------------
\* Claims about nested objects (checked under SpecShallow)
\* ------------------------------------------------------------------------

\* A step that changes the nested object starts no trigger and no effect: the
\* engine is as idle after it as before.
NestedChangeIsSilent ==
  store'[Todos] # store[Todos] => (stack = << >> /\ stack' = << >>)

\* A re-run of an effect is a call made by the trigger of a write to a key of
\* a wrapped object.
OnlyWrapperWritesRerun ==
  \A i \in DOMAIN stack :
    (stack[i].kind = "effectFn" /\ ~stack[i].first) =>
      /\ i > 1
      /\ stack[i - 1].kind = "trigger"
      /\ stack[i - 1].o \in Objs
      /\ stack[i - 1].k \in KeysOf(stack[i - 1].o)

Live == ChildNode(container, 0)

Patched == phase = "patched"

\* At some index of the two nodes' child lists a string faces a missing
\* child: the position the loop's string branch answers with an error.
StringFacesAbsent(new, old) ==
  \E i \in 0 .. Max(Len(new.children), Len(old.children)) - 1 :
    \/ IsString(ChildAt(new.children, i)) /\ IsAbsent(ChildAt(old.children, i))
    \/ IsAbsent(ChildAt(new.children, i)) /\ IsString(ChildAt(old.children, i))

\* C7: for every pair (old, new), the live child being render(old), patch
\* completes and leaves the live child equal to a fresh render(new). Stated
\* here on the pairs in which no string child faces a missing child.
C7_PatchPostcondition ==
  (Patched /\ ~StringFacesAbsent(newVNode, oldVNode)) =>
    (~hostError /\ container.childNodes = << Render(newVNode) >>)

\* Same tag, and the new children are a proper prefix of the old children,
\* which are all virtual nodes.
ShrinkCase ==
  /\ Patched
  /\ newVNode.type = oldVNode.type
  /\ Len(newVNode.children) < Len(oldVNode.children)
  /\ newVNode.children = SubSeq(oldVNode.children, 1, Len(newVNode.children))
  /\ \A i \in DOMAIN oldVNode.children : ~IsString(oldVNode.children[i])

\* C8: a shrink removes exactly the trailing live children without a
\* counterpart in the new list and nothing else, without error, however many
\* they are.
C8_ListShrink ==
  ShrinkCase =>
    /\ ~hostError
    /\ Live.childNodes =
         SubSeq(Render(oldVNode).childNodes, 1, Len(newVNode.children))
    /\ Len(hostLog) = Len(oldVNode.children) - Len(newVNode.children)
    /\ \A i \in DOMAIN hostLog :
         hostLog[i].op = "removeChild" /\ hostLog[i].path = << 0 >>

\* Same tag, and the new children are the old children followed by more
\* children, all virtual nodes.
GrowthCase ==
  /\ Patched
  /\ newVNode.type = oldVNode.type
  /\ Len(oldVNode.children) < Len(newVNode.children)
  /\ oldVNode.children = SubSeq(newVNode.children, 1, Len(oldVNode.children))
  /\ \A i \in Len(oldVNode.children) + 1 .. Len(newVNode.children) :
       ~IsString(newVNode.children[i])

\* C9: a growth appends exactly one freshly rendered node per added child, in
\* order, at the end of the live child list, and mutates nothing else.
C9_ListGrowth ==
  GrowthCase =>
    /\ ~hostError
    /\ Live.childNodes =
         Render(oldVNode).childNodes
           \o [i \in 1 .. Len(newVNode.children) - Len(oldVNode.children) |->
                 Render(newVNode.children[Len(oldVNode.children) + i])]
    /\ hostLog =
         [i \in 1 .. Len(newVNode.children) - Len(oldVNode.children) |->
            HostOp("appendChild", << 0 >>, "", -1)]

\* C9's case: one old child, three new children, two appends.
C9_Witness ==
  /\ GrowthCase
  /\ Len(oldVNode.children) = 1
  /\ Len(newVNode.children) = 3
  /\ Len(hostLog) = 2
  /\ ~hostError

\* C10: patching a tree to a tree identical by value makes no host mutation.
C10_IdempotentPatch ==
  (Patched /\ newVNode = oldVNode) =>
    /\ hostLog = << >>
    /\ ~hostError
    /\ container.childNodes = << Render(oldVNode) >>

\* C10's case: a tree with attributes, a handler, element children with
\* their own props and text, and a string child, patched to itself.
C10_Witness ==
  /\ Patched
  /\ newVNode = oldVNode
  /\ "onClick" \in DOMAIN oldVNode.props
  /\ \E i, j, k \in DOMAIN oldVNode.children :
       /\ IsString(oldVNode.children[i])
       /\ "id" \in DOMAIN oldVNode.children[j].props
       /\ "onClick" \in DOMAIN oldVNode.children[k].props
  /\ hostLog = << >>

\* At index i both child lists hold a virtual node, and the two tags differ.
TagChangeAt(i) ==
  /\ ~IsAbsent(ChildAt(newVNode.children, i)) /\ ~IsString(ChildAt(newVNode.children, i))
  /\ ~IsAbsent(ChildAt(oldVNode.children, i)) /\ ~IsString(ChildAt(oldVNode.children, i))
  /\ ChildAt(newVNode.children, i).type # ChildAt(oldVNode.children, i).type

\* p is a prefix of the path q.
IsPrefix(p, q) == Len(p) <= Len(q) /\ SubSeq(q, 1, Len(p)) = p

\* C12: where the old and the new node are both present at a position and
\* their tags differ, patch makes one host call for the position, a
\* replaceChild at that index that puts a fresh render of the new node there,
\* whatever the two nodes' props and children are: no attribute is diffed and
\* no child of the position is visited. Stated for the root position and for
\* the positions of the root's child list.
C12_TagChangeReplaces ==
  Patched =>
    /\ newVNode.type # oldVNode.type =>
          /\ ~hostError
          /\ hostLog = << HostOp("replaceChild", << >>, "", 0) >>
          /\ container.childNodes = << Render(newVNode) >>
    /\ newVNode.type = oldVNode.type =>
          \A i \in 0 .. MaxKids :
            TagChangeAt(i) =>
              /\ Cardinality({n \in DOMAIN hostLog :
                                hostLog[n].path = << 0 >> /\ hostLog[n].index = i}) = 1
              /\ \A n \in DOMAIN hostLog :
                   /\ (hostLog[n].path = << 0 >> /\ hostLog[n].index = i) =>
                        hostLog[n].op = "replaceChild"
                   /\ ~IsPrefix(<< 0, i >>, hostLog[n].path)
              /\ ChildNode(Live, i) = Render(ChildAt(newVNode.children, i))

\* C12's case: under one root tag, a child with props and text is patched to
\* a child of another tag at a position that is not the first.
C12_Witness ==
  /\ Patched
  /\ newVNode.type = oldVNode.type
  /\ \E i \in 1 .. MaxKids :
       /\ TagChangeAt(i)
       /\ ChildAt(oldVNode.children, i).props # ChildAt(newVNode.children, i).props
       /\ ChildAt(oldVNode.children, i).children # << >>
       /\ ChildNode(Live, i) = Render(ChildAt(newVNode.children, i))

Min(a, b) == IF a <= b THEN a ELSE b

\* The first index past the end of the shorter child list.
PastShorter == Min(Len(newVNode.children), Len(oldVNode.children))

\* Same tag, and the first index past the end of the shorter child list holds
\* a string in the longer one.
TextPastEnd ==
  /\ Patched
  /\ newVNode.type = oldVNode.type
  /\ \/ IsString(ChildAt(newVNode.children, PastShorter))
     \/ IsString(ChildAt(oldVNode.children, PastShorter))

\* C15: in the child loop of a same-tag patch, an index at which one side is
\* a string and the other side is past its end makes patch fail with an
\* error; when it is the first index past the shorter list, nothing has been
\* appended or removed in its place and the live list keeps its length.
C15_TextAgainstAbsent ==
  /\ (Patched /\ newVNode.type = oldVNode.type
        /\ StringFacesAbsent(newVNode, oldVNode)) => hostError
  /\ TextPastEnd =>
       /\ hostError
       /\ \A n \in DOMAIN hostLog :
            hostLog[n].path = << 0 >> => hostLog[n].op \notin {"appendChild", "removeChild"}
       /\ Len(Live.childNodes) = Len(oldVNode.children)

\* C15's case: a string added right after the end of a non-empty old list,
\* and patch has ended by the error.
C15_Witness ==
  /\ TextPastEnd
  /\ hostError
  /\ Len(oldVNode.children) >= 1 /\ Len(newVNode.children) >= 1
  /\ Len(newVNode.children) > Len(oldVNode.children)

\* C14: a mount on an identifier the document holds no element for throws
\* the not-found error carrying that identifier and leaves the host tree as it
\* was, nothing appended; a mount on the container's identifier throws
\* nothing and leaves the container with exactly one child, the rendered
\* vnode.
C14_MountNotFound ==
  /\ (lastMount.id # "" /\ lastMount.id # "root") =>
       /\ lastMount.thrown = [name |-> "Error", message |-> "cannot find ID: ",
                              id |-> lastMount.id]
       /\ phase = "init"
       /\ container = Element("div", Props1("id", "root"), {}, << >>)
  /\ lastMount.id = "root" =>
       /\ lastMount.thrown = NoError
       /\ phase = "mounted" => container.childNodes = << Render(oldVNode) >>

\* C14's case: the last mount named an identifier that is not in the document
\* and has thrown.
C14_Witness ==
  /\ lastMount.id = "app"
  /\ lastMount.thrown.name = "Error"
  /\ container.childNodes = << >>

\* ------------------------------------------------------------------------
\* Claims about h (checked under SpecH)
\* ------------------------------------------------------------------------

RECURSIVE KeptIn(_)

\* The number of virtual nodes and strings in a list of entries, at any depth.
KeptIn(items) ==
  IF items = << >>
    THEN 0
    ELSE (CASE Head(items).kind = "array" -> KeptIn(Head(items).items)
            [] Head(items).kind = "child" -> 1
            [] OTHER -> 0) + KeptIn(Tail(items))

RECURSIVE NthKept(_, _)

\* The n-th virtual node or string of a list of entries, read left to right
\* through every array.
NthKept(items, n) ==
  LET here == KeptIn(<< Head(items) >>)
  IN  IF n <= here
        THEN IF Head(items).kind = "array"
               THEN NthKept(Head(items).items, n)
               ELSE Head(items).child
        ELSE NthKept(Tail(items), n - here)

RECURSIVE Nesting(_)

\* How many arrays deep a list of entries is nested.
Nesting(items) ==
  IF items = << >>
    THEN 0
    ELSE Max(IF Head(items).kind = "array" THEN 1 + Nesting(Head(items).items) ELSE 0,
             Nesting(Tail(items)))

HCalled == hResult # UndefinedChild

\* C13: h returns a virtual node of the given type and props whose children
\* are the virtual nodes and strings of the children argument, every one of
\* them and nothing else, in their left-to-right order, whatever arrays they
\* were nested in and whatever null or undefined stood among them.
C13_FlattenLaw ==
  HCalled =>
    /\ hResult.type = hArgs.type
    /\ hResult.props = hArgs.props
    /\ Len(hResult.children) = KeptIn(hArgs.children)
    /\ \A n \in 1 .. Len(hResult.children) :
         /\ hResult.children[n] = NthKept(hArgs.children, n)
         /\ ~IsAbsent(hResult.children[n])

\* C13's case: h has been called on children nested as deep as the model
\* goes, with a null or undefined among them in the innermost array, and has
\* returned the one child that stood there.
C13_Witness ==
  /\ HCalled
  /\ Nesting(hArgs.children) = MaxNest
  /\ Len(Flat(hArgs.children)) > KeptIn(hArgs.children)
  /\ Len(hResult.children) = 1

\* ------------------------------------------------------------------------
\* Claims about the attribute diff (checked under SpecProps)
\* ------------------------------------------------------------------------

\* The live element render and updateProps work on.
LiveEl == ChildNode(container, 0)

Updated == phase = "updated"

AttrKeys == {key \in Range(KeyOrder) : ~StartsWithOn(key)}

OnlyAttributes(props) == DOMAIN props \subseteq AttrKeys

\* The number of host calls of method op for key in the last updateProps.
Calls(op, key) ==
  Cardinality({i \in DOMAIN hostLog : hostLog[i].op = op /\ hostLog[i].key = key})

\* C11: on mappings of non-event keys, updateProps issues exactly one
\* removeAttribute for each key of old missing in new, exactly one
\* setAttribute with the new value for each key of new whose value differs
\* from old's, and no host call for a key whose value is the same in both.
\* A value differs when its string form, which is what the host holds,
\* differs; it is the same when it is identical.
C11_AttributeMinimalDiff ==
  (Updated /\ OnlyAttributes(oldVNode.props) /\ OnlyAttributes(newVNode.props)) =>
    /\ ~hostError
    /\ \A i \in DOMAIN hostLog : hostLog[i].op \in {"setAttribute", "removeAttribute"}
    /\ \A key \in AttrKeys :
         LET inOld == key \in DOMAIN oldVNode.props
             inNew == key \in DOMAIN newVNode.props
             old == PropAt(oldVNode.props, key)
             new == PropAt(newVNode.props, key)
         IN  CASE ~inNew /\ ~inOld ->
                    Calls("setAttribute", key) = 0 /\ Calls("removeAttribute", key) = 0
               [] ~inNew /\ inOld ->
                    /\ Calls("removeAttribute", key) = 1
                    /\ Calls("setAttribute", key) = 0
                    /\ key \notin DOMAIN LiveEl.attrs
               [] inNew /\ (~inOld \/ StringOf(new) # StringOf(old)) ->
                    /\ Calls("setAttribute", key) = 1
                    /\ Calls("removeAttribute", key) = 0
                    /\ key \in DOMAIN LiveEl.attrs
                    /\ LiveEl.attrs[key] = StringOf(new)
               [] inNew /\ inOld /\ new = old ->
                    Calls("setAttribute", key) = 0 /\ Calls("removeAttribute", key) = 0
               [] OTHER ->
                    Calls("setAttribute", key) <= 1 /\ Calls("removeAttribute", key) = 0

\* The listeners a mapping asks for: one per event-prefixed key whose value
\* is callable.
Installed(props) ==
  {<< EventName(key), props[key].v >> :
     key \in {x \in DOMAIN props : StartsWithOn(x) /\ props[x].t = "function"}}

\* C17: after render and any sequence of completed updateProps calls on the
\* same live element, the listeners on the element are exactly the callable
\* values of the event-prefixed keys of the latest mapping.
C17_ListenerConsistency ==
  (phase \in {"rendered", "updated"} /\ ~hostError) =>
    LiveEl.listeners = Installed(newVNode.props)

====
